---- MODULE Spec2Model ----
(***************************************************************************)
(* ColumnMigrate: online column-type migration on a PostgreSQL table.      *)
(*                                                                         *)
(* The tool (main -> preflight -> runMigration) is one sequential process; *)
(* every statement it sends commits on its own.  The database is shared    *)
(* with external clients, which insert and update rows between the tool's  *)
(* statements.  The model holds the catalog of the one table the database  *)
(* has (public.t with columns id, c and possibly c_new), its rows, the     *)
(* installed triggers and functions, and the tool's position and output.   *)
(***************************************************************************)
EXTENDS Integers, Sequences, FiniteSets, TLC

VARIABLES
    pc,         \* position of the tool: main, preflight, count, step1, add,
                \* step2..step5, done, fatal
    plan,       \* the command-line flags of the run (main.go:14-22)
    columns,    \* catalog of public.t: column name -> declared type
    rows,       \* rows of public.t in physical (ctid) order
    triggers,   \* names of the triggers installed on public.t
    functions,  \* names of the functions of schema public
    executed,   \* statements the run handed to db.Exec and that succeeded
    printed,    \* statements the run printed instead of executing (dry-run)
    batchRows,  \* RowsAffected of each backfill batch of the run
    checks,     \* preflight checks evaluated by the run, in order
    estimate,   \* pending-row count preflight printed (NoEstimate: none)
    err,        \* context of the fatal error that ended the run ("" : none)
    writes,     \* number of external writes so far
    dropped,    \* values of the source column at the swap, per row (ghost)
    cols0,      \* catalog of the table before the first run (ghost)
    runs        \* number of the current run of the tool on this table

vars == <<pc, plan, columns, rows, triggers, functions, executed, printed,
          batchRows, checks, estimate, err, writes, dropped, cols0, runs>>

db == <<columns, rows, triggers, functions>>

-----------------------------------------------------------------------------
(* Bounds of the model *)

MaxRows == 2        \* rows the table can hold
MaxWrites == 1      \* external writes during a run
MaxBatch == 2       \* largest -batch value tried
SmallintMax == 1    \* largest value the narrow target type holds
MaxRuns == 2        \* runs of the tool on the table, the first included
MaxQuietRows == 5   \* rows of the tables no client writes to

InitVals == {1}     \* source values present before the run
WriteVals == {2}    \* source values external clients write during the run
ForeignVals == {3}  \* values of a c_new column that is not the tool's
PkVals == {1, 2}    \* values of the id column

-----------------------------------------------------------------------------
(* SQL values *)

NULL == 0
CastError == -1
NoEstimate == -1

\* Assignment of a source value to a column of the given type, as done by
\* NEW.<tmp> = NEW.<col> and SET <tmp> = t.<col>: NULL stays NULL, a value
\* the type cannot hold raises an error, any other value is preserved.
Cast(type, v) ==
    IF v = NULL THEN NULL
    ELSE IF type = "smallint" /\ v > SmallintMax THEN CastError
    ELSE v

-----------------------------------------------------------------------------
(* The database the tool connects to *)

Schemas == {"public"}
Tables == {<<"public", "t">>}
KnownTypes ==
    {"bigint", "smallint", "integer", "numeric", "double precision", "text"}

BaseColumns == [n \in {"id", "c"} |-> "integer"]
ForeignColumns == [n \in {"id", "c", "c_new"} |->
                      IF n = "c_new" THEN "text" ELSE "integer"]

Row(c, t, k) == [column |-> c, tempColumn |-> t, pk |-> k]

RowsOver(cs, ts, ks) == {Row(c, t, k) : c \in cs, t \in ts, k \in ks}

SeqsUpTo(S, n) == UNION {[1..k -> S] : k \in 0..n}

-----------------------------------------------------------------------------
(* helper.go *)

columnExists(schema, table, column) ==
    /\ <<schema, table>> \in Tables
    /\ column \in DOMAIN columns

\* The type expressions tried, and what the string functions of
\* sanitizeDataType and typeIsValid make of them.
TrimSpace(input) ==
    IF input = " double  precision " THEN "double  precision" ELSE input

HasDisallowedChars(s) == s \in {"big;int"}

CollapseSpaces(s) == IF s = "double  precision" THEN "double precision" ELSE s

StripTypmod(typeStr) == IF typeStr = "numeric(10,2)" THEN "numeric" ELSE typeStr

sanitizeDataType(input) ==
    LET s == TrimSpace(input) IN
    IF s = "" THEN [ok |-> FALSE, s |-> ""]
    ELSE IF HasDisallowedChars(s) THEN [ok |-> FALSE, s |-> ""]
    ELSE [ok |-> TRUE, s |-> CollapseSpaces(s)]

schemaExists(schema) == schema \in Schemas

tableExists(schema, table) == <<schema, table>> \in Tables

typeIsValid(typeStr) == StripTypmod(typeStr) \in KnownTypes

\* Rows requiring backfill: source non-null and shadow null.
IsPending(r) == r.column # NULL /\ r.tempColumn = NULL

Pending == {i \in 1..Len(rows) : IsPending(rows[i])}

pendingBackfillCount == Cardinality(Pending)

\* Mutant: the type is checked first.
CheckOrderTypeFirst == <<"type", "schema", "table", "column", "pk", "privilege">>

\* The checks of preflight in the order the code runs them.  A check is
\* "ok", "fail" (the thing is absent) or "error" (the query itself failed:
\* qerr names the check whose query fails, priv the engine's answer to
\* has_table_privilege).
CheckOrder == <<"schema", "table", "column", "pk", "privilege", "type">>

CheckApplies(p, name) == name # "pk" \/ p.pkColumn # ""

CheckOutcome(p, name, priv, qerr) ==
    IF qerr = name THEN "error"
    ELSE CASE name = "schema" ->
                IF schemaExists(p.schema) THEN "ok" ELSE "fail"
           [] name = "table" ->
                IF tableExists(p.schema, p.table) THEN "ok" ELSE "fail"
           [] name = "column" ->
                IF columnExists(p.schema, p.table, p.column) THEN "ok" ELSE "fail"
           [] name = "pk" ->
                IF columnExists(p.schema, p.table, p.pkColumn) THEN "ok" ELSE "fail"
           [] name = "privilege" ->
                IF priv = "yes" THEN "ok" ELSE IF priv = "no" THEN "fail" ELSE "error"
           [] name = "type" ->
                IF typeIsValid(sanitizeDataType(p.newType).s) THEN "ok" ELSE "fail"

\* The checks preflight runs for the flags, in its order.
Applicable(p) == SelectSeq(CheckOrder, LAMBDA name : CheckApplies(p, name))

\* Mutant: an unrecognized type is reported but does not stop the run.
preflightTypeNotFatal(p, evaluated, priv, qerr) ==
    LET name == Applicable(p)[Len(evaluated) + 1]
        out == CheckOutcome(p, name, priv, qerr)
    IN  [err |-> IF out = "ok" \/ name = "type" THEN "" ELSE name,
         evaluated |-> Append(evaluated, name)]

\* One check of preflight, the one that follows those evaluated: its query
\* is sent and answered, and preflight returns the check's error unless
\* the answer is ok.
preflight(p, evaluated, priv, qerr) ==
    LET name == Applicable(p)[Len(evaluated) + 1]
        out == CheckOutcome(p, name, priv, qerr)
    IN  [err |-> IF out = "ok" THEN "" ELSE name,
         evaluated |-> Append(evaluated, name)]

-----------------------------------------------------------------------------
(* Names derived by runMigration *)

\* The type main hands to preflight and runMigration (main.go:34, 48, 52).
sanitizedType == sanitizeDataType(plan.newType).s

tempColumn == plan.column \o "_new"
funcName == "sync_" \o plan.table \o "_" \o plan.column
triggerName == "trg_sync_" \o plan.table \o "_" \o plan.column

-----------------------------------------------------------------------------
(* What the engine does with the statements of migrate.go *)

TriggerInstalled == triggers # {}

\* Mutant: the function fills the shadow only while it is NULL.
SyncFunctionFillsOnly(r) ==
    [r EXCEPT !.tempColumn =
        IF @ = NULL THEN Cast(columns[tempColumn], r.column) ELSE @]

\* Body of the sync function (migrate.go:30): NEW.<tmp> = NEW.<col>.
SyncFunction(r) ==
    [r EXCEPT !.tempColumn = Cast(columns[tempColumn], r.column)]

\* A row write goes through the BEFORE INSERT OR UPDATE row trigger when
\* one is installed.
BeforeRowWrite(r) == IF TriggerInstalled THEN SyncFunction(r) ELSE r

\* ALTER TABLE ... ADD COLUMN <tmp> <type>: existing rows read NULL in it.
AddColumn(cols, name, type) ==
    [n \in DOMAIN cols \cup {name} |-> IF n = name THEN type ELSE cols[n]]

\* ALTER TABLE ... DROP COLUMN <col>; RENAME COLUMN <tmp> TO <col>.
SwapColumns(cols, col, tmp) ==
    [n \in DOMAIN cols \ {tmp} |-> IF n = col THEN cols[tmp] ELSE cols[n]]

SwapRow(r) == Row(r.tempColumn, NULL, r.pk)

Min(a, b) == IF a < b THEN a ELSE b

\* ORDER BY <pk> ascending: NULLs sort last.
PkBefore(a, b) == a # NULL /\ (b = NULL \/ a < b)

PendingOf(rws) == {i \in 1..Len(rws) : IsPending(rws[i])}

\* Mutant: the subquery has no LIMIT and selects every pending row.
KeyedSelectionsNoLimit(rws, batchSize) == {PendingOf(rws)}

\* Keyed subquery (migrate.go:58-63): the first batchSize pending rows by
\* <pk>; rows with equal keys come in either order.
KeyedSelections(rws, batchSize) ==
    LET P == PendingOf(rws) IN
    {S \in SUBSET P :
        /\ Cardinality(S) = Min(batchSize, Cardinality(P))
        /\ \A i \in S, j \in P \ S : ~PkBefore(rws[j].pk, rws[i].pk)}

\* Mutant: the join has no condition on the key and takes every keyed row
\* once a row was selected.
KeyedTargetsUnjoined(rws, S) ==
    {i \in 1..Len(rws) : rws[i].pk # NULL /\ S # {}}

\* Join back WHERE t.<pk> = s.<pk> (migrate.go:65): every row of the table
\* whose key equals a selected key; NULL equals nothing.
KeyedTargets(rws, S) ==
    {i \in 1..Len(rws) :
        rws[i].pk # NULL /\ \E j \in S : rws[j].pk = rws[i].pk}

\* Fallback subquery (migrate.go:79-83): any batchSize pending rows.
FallbackSelections(rws, batchSize) ==
    LET P == PendingOf(rws) IN
    {S \in SUBSET P : Cardinality(S) = Min(batchSize, Cardinality(P))}

\* Join back WHERE t.ctid = s.ctid (migrate.go:85).
FallbackTargets(rws, S) == S

\* Mutant: the ctid join of the fallback statement matches no row.
BatchTargetsFallbackUnjoined(rws, pkColumn, batchSize) ==
    IF pkColumn # ""
    THEN {KeyedTargets(rws, S) : S \in KeyedSelections(rws, batchSize)}
    ELSE {{}}

\* The sets of rows one batch statement may update.
BatchTargets(rws, pkColumn, batchSize) ==
    IF pkColumn # ""
    THEN {KeyedTargets(rws, S) : S \in KeyedSelections(rws, batchSize)}
    ELSE {FallbackTargets(rws, S) : S \in FallbackSelections(rws, batchSize)}

\* Mutant: the assignment is the other way round, SET <col> = t.<tmp>.
BackfillRowIntoSource(r) ==
    BeforeRowWrite([r EXCEPT !.column = r.tempColumn])

\* SET <tmp> = t.<col> on the target rows, each passing the row trigger.
BackfillRow(r) ==
    BeforeRowWrite([r EXCEPT !.tempColumn = Cast(columns[tempColumn], r.column)])

\* Mutant: the statement reports its rows and writes none of them.
UpdateRowsWritesNothing(rws, T) == rws

UpdateRows(rws, T) ==
    [i \in 1..Len(rws) |-> IF i \in T THEN BackfillRow(rws[i]) ELSE rws[i]]

\* A statement fails as a whole when a value does not fit the column.
CastFails(rws, T) ==
    \E i \in T : Cast(columns[tempColumn], rws[i].column) = CastError

\* Mutant: the loop leaves on a short batch.
LoopDoneOnShortBatch(n) == n <= 1

\* The loop leaves when a batch reports zero rows (migrate.go:110-112).
LoopDone(n) == n = 0

\* The backfill loop as a whole on a table no client writes to
\* (migrate.go:50-114): the outcomes it can end with, each the table it
\* leaves and whether a batch statement failed.
RECURSIVE LoopResults(_, _, _)
LoopResults(rws, pkColumn, batchSize) ==
    IF batchSize < 0 THEN {[failed |-> TRUE, rows |-> rws]}
    ELSE UNION {IF CastFails(rws, T)
                   THEN {[failed |-> TRUE, rows |-> rws]}
                ELSE IF LoopDone(Cardinality(T))
                   THEN {[failed |-> FALSE, rows |-> UpdateRows(rws, T)]}
                ELSE LoopResults(UpdateRows(rws, T), pkColumn, batchSize) :
                T \in BatchTargets(rws, pkColumn, batchSize)}

-----------------------------------------------------------------------------
(* Inputs: the flags of main.go and the table found at start *)

Plan(schema, table, column, newType, batchSize, pkColumn, dryRun) ==
    [schema |-> schema, table |-> table, column |-> column,
     newType |-> newType, batchSize |-> batchSize, pkColumn |-> pkColumn,
     dryRun |-> dryRun]

\* Plans that name what the database has.
GoodPlans ==
    {Plan("public", "t", "c", "bigint", b, k, FALSE) :
        b \in -1..MaxBatch, k \in {"", "id"}}
    \cup {Plan("public", "t", "c", "bigint", b, k, TRUE) :
        b \in 0..1, k \in {"", "id"}}
    \cup {Plan("public", "t", "c", "smallint", 1, k, FALSE) : k \in {"", "id"}}
    \cup {Plan("public", "t", "c", " double  precision ", 1, "", FALSE),
          Plan("public", "t", "c", "numeric(10,2)", 1, "id", FALSE)}

\* Plans with a missing flag, a disallowed type, or a name the database
\* does not have.
BadPlans ==
    {Plan(s, t, c, ty, 1, k, d) :
        s \in {"public", "nosuch"}, t \in {"t", "nosuch", ""},
        c \in {"c", "nosuch"}, ty \in {"bigint", "bogus", "big;int"},
        k \in {"", "id", "nosuch"}, d \in BOOLEAN} \ GoodPlans

NullOr(S) == {NULL} \cup S

\* No statement reads the physical order of the rows apart from the
\* fallback subquery, which may return them in any order: initial tables
\* are taken up to a permutation of their rows, smallest (source, key) first.
RowRank(r) == r.column * (MaxRows + 3) + r.pk

Sorted(t) == \A i \in 1..(Len(t) - 1) : RowRank(t[i]) <= RowRank(t[i + 1])

\* Tables without a c_new column: the ordering column may hold NULLs and
\* duplicates.
PlainTables ==
    {t \in SeqsUpTo(RowsOver(NullOr(InitVals), {NULL}, NullOr(PkVals)), MaxRows) :
        Sorted(t)}

\* Tables where a column named c_new exists that the tool did not create;
\* here the ordering column is the key 1, 2, ...
ForeignTables ==
    {t \in SeqsUpTo(RowsOver(NullOr(InitVals), NullOr(ForeignVals), 1..MaxRows), MaxRows) :
        \A i \in 1..Len(t) : t[i].pk = i}

Init ==
    /\ pc = "main"
    /\ \/ /\ plan \in GoodPlans
          /\ \/ columns = BaseColumns /\ rows \in PlainTables
             \/ columns = ForeignColumns /\ rows \in ForeignTables
       \/ /\ plan \in BadPlans
          /\ columns = BaseColumns
          /\ rows \in SeqsUpTo(RowsOver(InitVals, {NULL}, {1}), 1)
    /\ triggers = {}
    /\ functions = {}
    /\ executed = <<>>
    /\ printed = <<>>
    /\ batchRows = <<>>
    /\ checks = <<>>
    /\ estimate = NoEstimate
    /\ err = ""
    /\ writes = 0
    /\ dropped = <<>>
    /\ cols0 = columns
    /\ runs = 1

-----------------------------------------------------------------------------
(* main.go *)

\* Mutant: the error is logged and the run carries on where it was.
checkFatalLogsOnly(context) ==
    /\ pc' = pc
    /\ err' = context

\* checkFatal / log.Fatalf: the process exits at once.
checkFatal(context) ==
    /\ pc' = "fatal"
    /\ err' = context

\* Flag validation, type sanitizing, connection and ping (main.go:27-45).
Main ==
    /\ pc = "main"
    /\ IF plan.table = "" \/ plan.column = "" \/ plan.newType = ""
       THEN checkFatal("Missing required flags")
       ELSE IF ~sanitizeDataType(plan.newType).ok
       THEN checkFatal("Validate new type")
       ELSE \/ pc' = "preflight" /\ err' = err
            \/ checkFatal("DB ping")
    /\ UNCHANGED <<plan, db, executed, printed, batchRows, checks, estimate,
                   writes, dropped, cols0, runs>>

\* The checks of preflight (helper.go:151-191), one round trip to the
\* server each, and, when one fails, the checkFatal of main on the error
\* returned (main.go:48-49).  The privilege answer is the engine's:
\* PostgreSQL has no table privilege named ALTER and answers
\* has_table_privilege(..., 'ALTER') with an error, which is the outcome
\* "error" and ends the run here; "yes" and "no" are the answers of an
\* engine that knows the name, for which the code has its two other
\* branches (helper.go:177-183).
Preflight ==
    /\ pc = "preflight"
    /\ Len(checks) < Len(Applicable(plan))
    /\ \E priv \in {"yes", "no", "error"},
          qerr \in {"none", "schema", "table", "column", "pk", "privilege", "type"} :
          LET res == preflight(plan, checks, priv, qerr) IN
          /\ checks' = res.evaluated
          /\ IF res.err = ""
             THEN /\ pc' = IF Len(res.evaluated) = Len(Applicable(plan))
                           THEN "count" ELSE "preflight"
                  /\ err' = err
             ELSE checkFatal(res.err)
    /\ UNCHANGED <<plan, db, executed, printed, batchRows, estimate, writes,
                   dropped, cols0, runs>>

\* Mutant: a count query that fails makes preflight return its error.
EstimateGates ==
    /\ pc = "count"
    /\ \E countFails \in BOOLEAN :
          IF countFails \/ tempColumn \notin DOMAIN columns
          THEN checkFatal("count") /\ estimate' = estimate
          ELSE /\ pc' = "step1"
               /\ err' = err
               /\ estimate' = pendingBackfillCount
    /\ UNCHANGED <<plan, db, executed, printed, batchRows, checks, writes,
                   dropped, cols0, runs>>

\* The pending-row estimate that ends preflight (helper.go:193-200), a
\* query of its own on the table as it is by then.  The count query names
\* the shadow column, so it fails while that column is absent; its failure
\* is only printed, and preflight returns nil.
Estimate ==
    /\ pc = "count"
    /\ \E countFails \in BOOLEAN :
          estimate' = IF countFails \/ tempColumn \notin DOMAIN columns
                      THEN NoEstimate
                      ELSE pendingBackfillCount
    /\ pc' = "step1"
    /\ UNCHANGED <<plan, db, executed, printed, batchRows, checks, err, writes,
                   dropped, cols0, runs>>

-----------------------------------------------------------------------------
(* migrate.go *)

\* Mutant: the dry-run branch prints and then falls through to execute.
execSQLWithOptsFallsThrough(stmt, effect, next) ==
    /\ printed' = IF plan.dryRun THEN Append(printed, stmt) ELSE printed
    /\ \/ /\ effect
          /\ executed' = Append(executed, stmt)
          /\ pc' = next
          /\ err' = err
       \/ /\ checkFatal(stmt)
          /\ UNCHANGED <<db, dropped, executed>>

\* execSQLWithOpts: print in dry-run, else execute; a failed statement has
\* no effect and is fatal.  (verbose only adds timing lines.)
execSQLWithOpts(stmt, effect, next) ==
    IF plan.dryRun
    THEN /\ printed' = Append(printed, stmt)
         /\ pc' = next
         /\ UNCHANGED <<db, dropped, executed, err>>
    ELSE \/ /\ effect
            /\ executed' = Append(executed, stmt)
            /\ pc' = next
            /\ UNCHANGED <<printed, err>>
         \/ /\ checkFatal(stmt)
            /\ UNCHANGED <<db, dropped, executed, printed>>

\* ALTER TABLE ... ADD COLUMN through execSQLWithOpts (migrate.go:16-20).
AddTempColumn ==
    execSQLWithOpts("add",
        /\ columns' = AddColumn(columns, tempColumn, sanitizedType)
        /\ UNCHANGED <<rows, triggers, functions, dropped>>,
        "step2")

\* Mutant: the column is added without looking for it first.
Step1Unconditional ==
    /\ pc = "step1"
    /\ pc' = "add"
    /\ UNCHANGED <<plan, db, dropped, executed, printed, err, batchRows, checks,
                   estimate, writes, cols0, runs>>

\* Step 1, the lookup (migrate.go:15): columnExists asks the catalog for
\* the temp column; the add follows when it is absent, and is skipped when
\* it is there.  When the lookup itself fails columnExists ends the process
\* (helper.go:78-80), in a dry run as well.
Step1 ==
    /\ pc = "step1"
    /\ \/ /\ pc' = IF columnExists(plan.schema, plan.table, tempColumn)
                   THEN "step2" ELSE "add"
          /\ err' = err
       \/ checkFatal("Could not check if column exists")
    /\ UNCHANGED <<plan, db, dropped, executed, printed, batchRows, checks,
                   estimate, writes, cols0, runs>>

\* Step 1, the statement (migrate.go:16-20): a round trip of its own after
\* the lookup.
Step1Add ==
    /\ pc = "add"
    /\ AddTempColumn
    /\ UNCHANGED <<plan, batchRows, checks, estimate, writes, cols0, runs>>

\* Step 2: create or replace the sync function and trigger (migrate.go:25-46).
Step2 ==
    /\ pc = "step2"
    /\ execSQLWithOpts("sync",
            /\ functions' = functions \cup {funcName}
            /\ triggers' = triggers \cup {triggerName}
            /\ UNCHANGED <<columns, rows, dropped>>,
            "step3")
    /\ UNCHANGED <<plan, batchRows, checks, estimate, writes, cols0, runs>>

\* Step 3: one pass of the backfill loop (migrate.go:50-114).
Step3 ==
    /\ pc = "step3"
    /\ IF plan.dryRun
       THEN /\ printed' = Append(printed, "batch")
            /\ pc' = "step4"
            /\ UNCHANGED <<db, executed, batchRows, err>>
       ELSE IF plan.batchSize < 0
       THEN \* LIMIT must not be negative
            /\ checkFatal("batch")
            /\ UNCHANGED <<db, executed, printed, batchRows>>
       ELSE \/ \E T \in BatchTargets(rows, plan.pkColumn, plan.batchSize) :
                 IF CastFails(rows, T)
                 THEN /\ checkFatal("batch")
                      /\ UNCHANGED <<db, executed, printed, batchRows>>
                 ELSE /\ rows' = UpdateRows(rows, T)
                      /\ executed' = Append(executed, "batch")
                      /\ batchRows' = Append(batchRows, Cardinality(T))
                      /\ pc' = IF LoopDone(Cardinality(T)) THEN "step4" ELSE "step3"
                      /\ UNCHANGED <<columns, triggers, functions, printed, err>>
            \/ /\ checkFatal("batch")
               /\ UNCHANGED <<db, executed, printed, batchRows>>
    /\ UNCHANGED <<plan, checks, estimate, writes, dropped, cols0, runs>>

\* Mutant: the teardown is left out and the run goes on to the swap.
Step4Missing ==
    /\ pc = "step4"
    /\ pc' = "step5"
    /\ UNCHANGED <<plan, db, executed, printed, err, dropped, batchRows,
                   checks, estimate, writes, cols0, runs>>

\* Step 4: drop the trigger and the function (migrate.go:116-123).
Step4 ==
    /\ pc = "step4"
    /\ execSQLWithOpts("teardown",
            /\ triggers' = triggers \ {triggerName}
            /\ functions' = functions \ {funcName}
            /\ UNCHANGED <<columns, rows, dropped>>,
            "step5")
    /\ UNCHANGED <<plan, batchRows, checks, estimate, writes, cols0, runs>>

\* Step 5: drop the source column, rename the temp column (migrate.go:125-135).
Step5 ==
    /\ pc = "step5"
    /\ execSQLWithOpts("swap",
            /\ columns' = SwapColumns(columns, plan.column, tempColumn)
            /\ rows' = [i \in 1..Len(rows) |-> SwapRow(rows[i])]
            /\ dropped' = [i \in 1..Len(rows) |-> rows[i].column]
            /\ UNCHANGED <<triggers, functions>>,
            "done")
    /\ UNCHANGED <<plan, batchRows, checks, estimate, writes, cols0, runs>>

-----------------------------------------------------------------------------
(* External clients of the database *)

Running == {"step1", "add", "step2", "step3", "step4", "step5"}

\* The table is online for as long as the tool's process lives: before and
\* during preflight, and between any two round trips of the run.
Online == {"main", "preflight", "count"} \cup Running

\* INSERT INTO t (id, c) VALUES (k, c); rejected when the trigger's
\* assignment does not fit the shadow column.
ClientInsert ==
    /\ pc \in Online
    /\ writes < MaxWrites
    /\ Len(rows) < MaxRows
    /\ \E c \in NullOr(WriteVals), k \in NullOr(PkVals) :
          LET r == BeforeRowWrite(Row(c, NULL, k)) IN
          /\ r.tempColumn # CastError
          /\ rows' = Append(rows, r)
    /\ writes' = writes + 1
    /\ UNCHANGED <<pc, plan, columns, triggers, functions, executed, printed,
                   batchRows, checks, estimate, err, dropped, cols0, runs>>

\* UPDATE t SET c = v WHERE ctid = i.
ClientUpdate ==
    /\ pc \in Online
    /\ writes < MaxWrites
    /\ \E i \in 1..Len(rows), c \in NullOr(WriteVals) :
          LET r == BeforeRowWrite([rows[i] EXCEPT !.column = c]) IN
          /\ r.tempColumn # CastError
          /\ rows' = [rows EXCEPT ![i] = r]
    /\ writes' = writes + 1
    /\ UNCHANGED <<pc, plan, columns, triggers, functions, executed, printed,
                   batchRows, checks, estimate, err, dropped, cols0, runs>>

-----------------------------------------------------------------------------

Next ==
    \/ Main
    \/ Preflight
    \/ Estimate
    \/ Step1
    \/ Step1Add
    \/ Step2
    \/ Step3
    \/ Step4
    \/ Step5
    \/ ClientInsert
    \/ ClientUpdate

Spec == Init /\ [][Next]_vars

-----------------------------------------------------------------------------
(* Running the tool again after a failed statement *)

\* The contexts checkFatal is given for the statements of runMigration.
StatementNames == {"add", "sync", "batch", "teardown", "swap"}

\* The operator starts the tool again with the same flags after a live run
\* ended on a failed statement: a new process, with nothing kept from the
\* previous one but the database.
Rerun ==
    /\ pc = "fatal"
    /\ err \in StatementNames
    /\ runs < MaxRuns
    /\ pc' = "main"
    /\ executed' = <<>>
    /\ printed' = <<>>
    /\ batchRows' = <<>>
    /\ checks' = <<>>
    /\ estimate' = NoEstimate
    /\ err' = ""
    /\ runs' = runs + 1
    /\ UNCHANGED <<plan, db, writes, dropped, cols0>>

\* The table stays online between the runs: an INSERT while the tool is
\* not running.
HaltedInsert ==
    /\ pc = "fatal"
    /\ err \in StatementNames
    /\ writes < MaxWrites
    /\ Len(rows) < MaxRows
    /\ \E c \in NullOr(WriteVals), k \in NullOr(PkVals) :
          LET r == BeforeRowWrite(Row(c, NULL, k)) IN
          /\ r.tempColumn # CastError
          /\ rows' = Append(rows, r)
    /\ writes' = writes + 1
    /\ UNCHANGED <<pc, plan, columns, triggers, functions, executed, printed,
                   batchRows, checks, estimate, err, dropped, cols0, runs>>

\* An UPDATE while the tool is not running.
HaltedUpdate ==
    /\ pc = "fatal"
    /\ err \in StatementNames
    /\ writes < MaxWrites
    /\ \E i \in 1..Len(rows), c \in NullOr(WriteVals) :
          LET r == BeforeRowWrite([rows[i] EXCEPT !.column = c]) IN
          /\ r.tempColumn # CastError
          /\ rows' = [rows EXCEPT ![i] = r]
    /\ writes' = writes + 1
    /\ UNCHANGED <<pc, plan, columns, triggers, functions, executed, printed,
                   batchRows, checks, estimate, err, dropped, cols0, runs>>

\* Runs separated by failures, the clients writing between the runs only.
NextRerun ==
    \/ Main
    \/ Preflight
    \/ Estimate
    \/ Step1
    \/ Step1Add
    \/ Step2
    \/ Step3
    \/ Step4
    \/ Step5
    \/ Rerun
    \/ HaltedInsert
    \/ HaltedUpdate

SpecRerun == Init /\ [][NextRerun]_vars

-----------------------------------------------------------------------------
(* Keyed runs on a table no client writes to *)

\* Tables whose ordering column holds no value twice: row i has the key i
\* or none (NULL); its source is a value or NULL, and there is no c_new.
QuietTables ==
    UNION {{[i \in 1..k |-> Row(c[i], NULL, IF keyed[i] THEN i ELSE NULL)] :
               c \in [1..k -> NullOr(InitVals)], keyed \in [1..k -> BOOLEAN]} :
           k \in 0..MaxQuietRows}

\* Live runs of the keyed strategy with a positive batch size.
QuietPlans == {Plan("public", "t", "c", "bigint", b, "id", FALSE) : b \in 1..MaxBatch}

InitQuiet ==
    /\ pc = "main"
    /\ plan \in QuietPlans
    /\ columns = BaseColumns
    /\ rows \in QuietTables
    /\ triggers = {}
    /\ functions = {}
    /\ executed = <<>>
    /\ printed = <<>>
    /\ batchRows = <<>>
    /\ checks = <<>>
    /\ estimate = NoEstimate
    /\ err = ""
    /\ writes = 0
    /\ dropped = <<>>
    /\ cols0 = columns
    /\ runs = 1

\* The steps of the tool alone.
NextQuiet ==
    \/ Main
    \/ Preflight
    \/ Estimate
    \/ Step1
    \/ Step1Add
    \/ Step2
    \/ Step3
    \/ Step4
    \/ Step5

SpecQuiet == InitQuiet /\ [][NextQuiet]_vars

TypeOK ==
    /\ pc \in {"main", "preflight", "count", "done", "fatal"} \cup Running
    /\ writes \in 0..MaxWrites
    /\ runs \in 1..MaxRuns
    /\ Len(rows) <= MaxRows
    /\ \A i \in 1..Len(rows) : rows[i].tempColumn # CastError

-----------------------------------------------------------------------------
(* Vocabulary of the properties *)

Live == ~plan.dryRun

\* The tool took the step (every external write is counted in writes).
ToolStep == writes' = writes

Last(s) == s[Len(s)]

Occurs(s, x) == \E i \in 1..Len(s) : s[i] = x

\* The ordering column is a key of the table: no NULLs, no duplicates.
PkIsKey ==
    \A i \in 1..Len(rows) :
        /\ rows[i].pk # NULL
        /\ \A j \in 1..Len(rows) : j # i => rows[j].pk # rows[i].pk

\* The shadow of a row mirrors its source.
Synced(r) == r.tempColumn = Cast(columns[tempColumn], r.column)

-----------------------------------------------------------------------------
(* C1 *)

\* C1: no write is lost: after the swap of a live run the column holds, for
\* every row, the (converted) value the source column had when the swap
\* executed.  Stated for the runs the data model accepts (positive batch
\* size, no c_new column before the run, ordering column a key, values the
\* target type holds), which are among the runs the claim covers.
C1_NoWriteLost ==
    (/\ pc = "done" /\ Live
     /\ plan.batchSize >= 1
     /\ "c_new" \notin DOMAIN cols0
     /\ (plan.pkColumn # "" => PkIsKey)
     /\ \A i \in 1..Len(rows) : Cast(columns[plan.column], dropped[i]) # CastError)
    => \A i \in 1..Len(rows) :
          rows[i].column = Cast(columns[plan.column], dropped[i])

\* Up to the teardown the same runs do keep every shadow equal to its source.
C1_SyncedAtTeardown ==
    (/\ pc = "step4" /\ Live
     /\ plan.batchSize >= 1
     /\ "c_new" \notin DOMAIN cols0
     /\ (plan.pkColumn # "" => PkIsKey))
    => \A i \in 1..Len(rows) : Synced(rows[i])

-----------------------------------------------------------------------------
(* C2 *)

\* C2: when the backfill loop of a live run has terminated (and the trigger
\* is not yet torn down) no row has source non-null and shadow null; the
\* loop runs at most one batch per row of the table plus one.
C2_LoopConverges ==
    /\ (pc = "step4" /\ Live) => Pending = {}
    /\ Len(batchRows) <= MaxRows + 1

\* The loop itself is bounded: every batch but the last updates a row.
C2_BatchesBounded ==
    /\ Len(batchRows) <= MaxRows + 1
    /\ \A i \in 1..Len(batchRows) - 1 : batchRows[i] > 0

-----------------------------------------------------------------------------
(* C3 *)

\* C3: a run started with batchSize <= 0 executes no statement of any
\* migration phase.
C3_BatchSizeRejected ==
    plan.batchSize <= 0 => executed = <<>>

-----------------------------------------------------------------------------
(* C4 *)

\* C4: in a live run install-sync has completed before the first backfill
\* batch, the trigger and its function are installed from then until the
\* teardown, and the teardown is issued only after a batch that reported
\* zero rows affected.
C4_TriggerCoversBackfill ==
    /\ \A i \in 1..Len(executed) :
          executed[i] = "batch" => \E j \in 1..(i - 1) : executed[j] = "sync"
    /\ (Live /\ pc \in {"step3", "step4"})
          => triggerName \in triggers /\ funcName \in functions
    /\ (Live /\ (pc \in {"step4", "step5", "done"} \/ Occurs(executed, "teardown")))
          => batchRows # <<>> /\ Last(batchRows) = 0

\* C4 witness: a live run about to tear down, after batches that updated rows.
C4_Witness ==
    /\ Live /\ pc = "step4"
    /\ Len(batchRows) >= 2
    /\ writes > 0

-----------------------------------------------------------------------------
(* C5 *)

\* The statements of a complete live run: add (unless the shadow column was
\* there), sync, one or more batches, teardown, swap.
PhaseOrder(s, added) ==
    LET k == IF added THEN 1 ELSE 0
        n == Len(s) IN
    /\ n >= k + 4
    /\ added => s[1] = "add"
    /\ s[k + 1] = "sync"
    /\ \A i \in (k + 2)..(n - 2) : s[i] = "batch"
    /\ s[n - 1] = "teardown"
    /\ s[n] = "swap"

\* C5: a live run that reports success executed its phases in the fixed
\* order, each once (the backfill as a run of batches), skipping only the
\* add when the shadow column existed; the trigger is gone when the swap
\* executes; the swap is the last statement.
C5_PhaseOrder ==
    /\ (Live /\ pc = "done")
          => PhaseOrder(executed, "c_new" \notin DOMAIN cols0)
    /\ (Live /\ pc = "step5") => triggers = {} /\ functions = {}
    /\ Occurs(executed, "swap") => pc = "done" /\ Last(executed) = "swap"

\* C5 witness: a successful live run that added the column and ran three
\* batches.
C5_Witness ==
    /\ Live /\ pc = "done"
    /\ executed = <<"add", "sync", "batch", "batch", "batch", "teardown", "swap">>

-----------------------------------------------------------------------------
(* C6 *)

\* C6: a row that an external client inserts or updates while the sync
\* trigger is installed has its shadow equal to its (converted) source
\* right after the write, whatever its shadow was before.
C6_TriggerMirrorsWrites ==
    [][(writes' = writes + 1 /\ TriggerInstalled)
          => \A i \in 1..Len(rows') :
                (i > Len(rows) \/ rows'[i] # rows[i])
                   => rows'[i].tempColumn = Cast(columns[tempColumn], rows'[i].column)]_vars

\* C6 witness: with the trigger installed and no batch run yet, a row holds
\* a written value in both columns.
C6_Witness ==
    /\ TriggerInstalled
    /\ writes > 0
    /\ batchRows = <<>>
    /\ \E i \in 1..Len(rows) :
          rows[i].column \in WriteVals /\ rows[i].tempColumn = rows[i].column

-----------------------------------------------------------------------------
(* C7 *)

\* C7: no step of a dry run changes the catalog, the rows, the triggers or
\* the functions, and a dry run executes no statement: it only prints.
C7_DryRunReadOnly ==
    /\ [][(ToolStep /\ plan.dryRun) => UNCHANGED db]_vars
    /\ [](plan.dryRun => executed = <<>> /\ batchRows = <<>>)

\* C7 witness: a dry run that printed every phase.
C7_Witness ==
    /\ plan.dryRun /\ pc = "done"
    /\ printed = <<"add", "sync", "batch", "teardown", "swap">>
    /\ rows # <<>>

-----------------------------------------------------------------------------
(* C8 *)

\* What checks 1 to 4 and 6 ask of the plan (5 is the engine's answer).
PlanNamesExist ==
    /\ schemaExists(plan.schema)
    /\ tableExists(plan.schema, plan.table)
    /\ "c" \in DOMAIN cols0 /\ plan.column = "c"
    /\ plan.pkColumn # "" => plan.pkColumn \in DOMAIN cols0
    /\ typeIsValid(sanitizedType)

CheckNames == {CheckOrder[i] : i \in 1..Len(CheckOrder)}

\* C8: when a preflight check fails or errors the run stops with that
\* error having executed and printed nothing, with the catalog, triggers
\* and functions as they were; and no phase starts unless every check that
\* applies was evaluated and passed.
C8_PreflightGates ==
    /\ [][(pc \in {"preflight", "count"} /\ ToolStep) => UNCHANGED db]_vars
    /\ [](err \in CheckNames
            => /\ pc = "fatal"
               /\ executed = <<>> /\ printed = <<>>
               /\ columns = cols0 /\ triggers = {} /\ functions = {}
               /\ Last(checks) = err)
    /\ []((pc \in Running \cup {"done"} \/ executed # <<>> \/ printed # <<>>)
            => /\ PlanNamesExist
               /\ checks = SelectSeq(CheckOrder, LAMBDA n : CheckApplies(plan, n)))

\* C8 witness: a run stopped by the type check, the last one.
C8_Witness ==
    /\ pc = "fatal" /\ err = "type"
    /\ rows # <<>>

-----------------------------------------------------------------------------
(* C9 *)

\* C9: after a successful live run the column has the original name and the
\* new type, the other columns are those of before the run without c_new,
\* and neither the sync trigger nor the sync function exists.
C9_FinalSchema ==
    (Live /\ pc = "done")
    => /\ DOMAIN columns = DOMAIN cols0 \ {"c_new"}
       /\ columns[plan.column] = sanitizedType
       /\ \A n \in DOMAIN columns \ {plan.column} : columns[n] = cols0[n]
       /\ triggerName \notin triggers
       /\ funcName \notin functions

-----------------------------------------------------------------------------
(* C10 *)

\* The lookup of step 1 did not answer and ended the process.
LookupFailed == pc' = "fatal" /\ err' = "Could not check if column exists"

\* C10 as stated: whenever the shadow column exists at step 1 the step
\* emits and executes nothing, leaves the catalog, the rows, the triggers
\* and the functions as they are, and the run goes on to install-sync.
C10_IdempotentSkip ==
    [][(pc = "step1" /\ ToolStep /\ tempColumn \in DOMAIN columns)
          => /\ pc' = "step2"
             /\ UNCHANGED <<db, executed, printed>>]_vars

\* C10, amended: when the shadow column exists at step 1 the step emits
\* and executes nothing and leaves the catalog, the rows, the triggers and
\* the functions as they are; the run goes on to install-sync, without
\* passing by the add, unless the lookup itself fails, which ends the run.
C10_IdempotentSkipOnAnswer ==
    [][(pc = "step1" /\ ToolStep /\ tempColumn \in DOMAIN columns)
          => /\ UNCHANGED <<db, executed, printed>>
             /\ pc' = "step2" \/ LookupFailed]_vars

\* C10 witness: past step 1 with nothing emitted, the shadow column (and a
\* value in it) being there from the start.
C10_Witness ==
    /\ pc = "step2"
    /\ executed = <<>> /\ printed = <<>>
    /\ "c_new" \in DOMAIN columns
    /\ \E i \in 1..Len(rows) : rows[i].tempColumn \in ForeignVals

-----------------------------------------------------------------------------
(* C11 *)

\* C11: a column named c_new that was on the table before the run, put
\* there by someone else, is not taken for the shadow column: the run
\* executes no backfill batch into it and no swap that drops the source and
\* renames it.
C11_ForeignColumnLeftAlone ==
    "c_new" \in DOMAIN cols0
    => /\ ~Occurs(executed, "batch")
       /\ ~Occurs(executed, "swap")

-----------------------------------------------------------------------------
(* C12 *)

\* C12: a statement that fails in a live run ends the run there: the failing
\* step leaves the catalog, the rows, the triggers, the functions and the
\* list of executed statements as the last successful statement left them,
\* and once the run has ended on a statement's error the tool takes no
\* further step (no later statement, no retry, no cleanup).
C12_FailureIsFinal ==
    /\ [][(ToolStep /\ pc' = "fatal" /\ err' \in StatementNames)
             => Live /\ UNCHANGED <<db, executed, printed, dropped>>]_vars
    /\ [][(err \in StatementNames)
             => UNCHANGED <<pc, err, db, executed, printed>>]_vars
    /\ [](err \in StatementNames => pc = "fatal")

\* C12 witness: a run ended by the failure of its teardown, the trigger and
\* the filled shadow column still in place.
C12_Witness ==
    /\ pc = "fatal" /\ err = "teardown"
    /\ TriggerInstalled
    /\ \E i \in 1..Len(rows) : rows[i].tempColumn \in InitVals

-----------------------------------------------------------------------------
(* C13 *)

\* C13: reruns are safe: when a live run ended on a failed statement and the
\* tool was run again with the same flags, a second run that completes
\* leaves in every row's migrated column the (converted) value its source
\* column had when the swap executed.  Stated for the runs the data model
\* accepts (positive batch size, no c_new column before the first run,
\* ordering column a key, values the target type holds) and for clients
\* that write only between the two runs.
C13_RerunLosesNoWrite ==
    (/\ pc = "done" /\ Live /\ runs > 1
     /\ plan.batchSize >= 1
     /\ "c_new" \notin DOMAIN cols0
     /\ (plan.pkColumn # "" => PkIsKey)
     /\ \A i \in 1..Len(rows) : Cast(columns[plan.column], dropped[i]) # CastError)
    => \A i \in 1..Len(rows) :
          rows[i].column = Cast(columns[plan.column], dropped[i])

-----------------------------------------------------------------------------
(* C14 *)

RECURSIVE Sum(_)
Sum(s) == IF s = <<>> THEN 0 ELSE s[1] + Sum(Tail(s))

Prefix(s, n) == SubSeq(s, 1, n)

CeilDiv(n, b) == (n + b - 1) \div b

\* The batches of a keyed live run with a positive batch size on a table
\* whose ordering column is unique (no value twice) and that no client
\* writes to.
QuietKeyedRun ==
    /\ Live
    /\ plan.pkColumn # ""
    /\ plan.batchSize >= 1
    /\ writes = 0
    /\ \A i, j \in 1..Len(rows) :
          (i # j /\ rows[i].pk # NULL) => rows[i].pk # rows[j].pk
    /\ pc \in {"step3", "step4", "step5"} \/ (pc = "fatal" /\ err \in StatementNames)
    /\ tempColumn \in DOMAIN columns

\* Rows pending when the backfill started: those updated since, and those
\* still pending.
PendingAtStart == Sum(batchRows) + pendingBackfillCount

\* With N rows pending at the start and batch size B, every batch affects
\* min(B, rows still pending) rows; when the loop has ended the run has made
\* exactly ceil(N / B) batches that affected rows and then exactly one that
\* affected none, and the counts sum to N.
BatchArithmetic ==
    /\ \A k \in 1..Len(batchRows) :
          batchRows[k] = Min(plan.batchSize,
                             PendingAtStart - Sum(Prefix(batchRows, k - 1)))
    /\ pc \in {"step4", "step5"} =>
          /\ Len(batchRows) = CeilDiv(PendingAtStart, plan.batchSize) + 1
          /\ \A k \in 1..(Len(batchRows) - 1) : batchRows[k] > 0
          /\ Last(batchRows) = 0
          /\ Sum(batchRows) = PendingAtStart
          /\ pendingBackfillCount = 0

\* C14 as stated: a keyed live run with batch size B >= 1 over a unique
\* ordering column, without concurrent writes and with N rows pending,
\* makes exactly ceil(N / B) batches that affect rows, each min(B, rows
\* still pending), then exactly one that affects none; the counts sum to N.
C14_BatchArithmetic ==
    QuietKeyedRun => BatchArithmetic

\* C14, amended: the same arithmetic when the ordering column is a key of
\* the table, unique and without NULL.
C14_BatchArithmeticOnKey ==
    (QuietKeyedRun /\ PkIsKey) => BatchArithmetic

\* C14 witness: five rows pending and batch size 2 gave two full batches,
\* a partial one, and the empty one that ends the loop.
C14_Witness ==
    /\ QuietKeyedRun /\ PkIsKey
    /\ pc = "step4"
    /\ plan.batchSize = 2
    /\ batchRows = <<2, 2, 1, 0>>

-----------------------------------------------------------------------------
(* C15 *)

\* A keyed batch of a live run executed in the step.
KeyedBatchStep ==
    /\ pc = "step3" /\ Live
    /\ plan.pkColumn # ""
    /\ Len(batchRows') = Len(batchRows) + 1

\* Rows whose contents the step changed.
ChangedRows == {i \in 1..Len(rows) : rows'[i] # rows[i]}

\* No two rows hold the same non-NULL value in the ordering column.
PkUnique ==
    \A i, j \in 1..Len(rows) :
        (i # j /\ rows[i].pk # NULL) => rows[i].pk # rows[j].pk

\* C15 as stated: whatever the table and the ordering column, a keyed batch
\* updates at most batchSize rows, and every row it changes had a non-null
\* source and a NULL shadow when the batch started.
C15_KeyedBatchWithinLimit ==
    [][KeyedBatchStep
          => /\ Last(batchRows') <= plan.batchSize
             /\ \A i \in ChangedRows : IsPending(rows[i])]_vars

\* C15, amended: when no two rows share a non-NULL value of the ordering
\* column, a keyed batch updates at most batchSize rows, changes each row it
\* updates, and every row it changes had a non-null source and a NULL
\* shadow when the batch started.
C15_KeyedBatchWithinLimitOnKey ==
    [][(KeyedBatchStep /\ PkUnique)
          => /\ Last(batchRows') <= plan.batchSize
             /\ Cardinality(ChangedRows) = Last(batchRows')
             /\ \A i \in ChangedRows : IsPending(rows[i])]_vars

\* C15 witness: a keyed batch of size 1 took one of two pending rows with
\* distinct keys.
C15_Witness ==
    /\ pc = "step3" /\ Live
    /\ plan.pkColumn # "" /\ plan.batchSize = 1
    /\ PkUnique
    /\ batchRows = <<1>>
    /\ pendingBackfillCount = 1
    /\ Len(rows) = 2

-----------------------------------------------------------------------------
(* C16 *)

\* A live run about to start its backfill on a table no client has written.
QuietLoopStart ==
    /\ pc = "step3" /\ Live
    /\ batchRows = <<>>
    /\ writes = 0

\* The two strategies end the backfill with the same outcomes.
StrategiesAgree ==
    LoopResults(rows, "id", plan.batchSize) = LoopResults(rows, "", plan.batchSize)

\* C16 as stated: from the same table and the same flags, without concurrent
\* writes, the backfill without an ordering column ends with the same table
\* contents as the backfill with one (the statements after the loop do not
\* depend on the strategy).
C16_StrategiesEquivalent ==
    QuietLoopStart => StrategiesAgree

\* C16, amended: the two strategies end with the same table contents when
\* the ordering column is a key of the table (no NULLs, no duplicates); the
\* loop then ends with no row pending, and a run that completes leaves in
\* every row the value the fallback leaves, whichever strategy it used.
C16_StrategiesEquivalentOnKey ==
    /\ (QuietLoopStart /\ PkIsKey) => StrategiesAgree
    /\ (QuietLoopStart /\ PkIsKey /\ plan.batchSize >= 1)
          => \A o \in LoopResults(rows, plan.pkColumn, plan.batchSize) :
                \A i \in 1..Len(rows) : ~IsPending(o.rows[i])
    /\ (pc = "done" /\ Live /\ writes = 0 /\ plan.batchSize >= 1
        /\ "c_new" \notin DOMAIN cols0 /\ PkIsKey)
          => \A i \in 1..Len(rows) :
                rows[i].column = Cast(columns[plan.column], dropped[i])

\* C16 witness: a backfill about to start on two pending rows with distinct
\* keys, which either strategy fills.
C16_Witness ==
    /\ QuietLoopStart /\ PkIsKey
    /\ plan.batchSize = 1
    /\ pendingBackfillCount = 2
    /\ \A o \in LoopResults(rows, "id", 1) \cup LoopResults(rows, "", 1) :
          ~o.failed /\ \A i \in 1..Len(rows) : o.rows[i].tempColumn # NULL

-----------------------------------------------------------------------------
(* C17 *)

\* The order the checks are said to run in: schema, table, source column,
\* ordering column, alter privilege, target type.
ClaimedOrder == <<"schema", "table", "column", "pk", "privilege", "type">>

\* The checks of that order that apply to the flags, among its first n.
ClaimedPrefix(n) ==
    SelectSeq(SubSeq(ClaimedOrder, 1, n),
              LAMBDA name : name # "pk" \/ plan.pkColumn # "")

\* What the flags and the catalog say of a check; the privilege is the
\* engine's answer and is not fixed by them.
Holds(name) ==
    CASE name = "schema" -> plan.schema = "public"
      [] name = "table" -> plan.schema = "public" /\ plan.table = "t"
      [] name = "column" -> plan.column \in DOMAIN cols0
      [] name = "pk" -> plan.pkColumn \in DOMAIN cols0
      [] name = "privilege" -> TRUE
      [] name = "type" -> typeIsValid(sanitizedType)

\* C17: preflight evaluates its checks in the order schema, table, source
\* column, ordering column (only when one is supplied), alter privilege,
\* target type, and stops at the first that fails: the checks evaluated are
\* an initial part of that order, all but the last of them passed, the
\* error is that of the last one, and nothing after it was evaluated; when
\* no check failed all of them were evaluated.
C17_PreflightOrder ==
    pc # "main" /\ err # "Missing required flags"
    /\ err # "Validate new type" /\ err # "DB ping"
    => /\ \E n \in 0..Len(ClaimedOrder) : checks = ClaimedPrefix(n)
       /\ \A k \in 1..(Len(checks) - 1) : Holds(checks[k])
       /\ IF err \in CheckNames
          THEN checks # <<>> /\ Last(checks) = err
          ELSE /\ \A k \in 1..Len(checks) : Holds(checks[k])
               /\ pc # "preflight" => checks = ClaimedPrefix(Len(ClaimedOrder))

\* C17 witness: neither the table nor the type exists; the run stopped on
\* the table and never looked at the column, the privilege or the type.
C17_Witness ==
    /\ pc = "fatal" /\ err = "table"
    /\ checks = <<"schema", "table">>
    /\ plan.column \notin DOMAIN cols0
    /\ ~typeIsValid(sanitizedType)

-----------------------------------------------------------------------------
(* C18 *)

\* C18: the pending-row estimate never gates the run: a preflight whose
\* checks all pass returns success and the run goes on to step 1 with no
\* error, whether the count query failed (no estimate) or returned a count,
\* and whatever the count; the database is as it was.
C18_EstimateNeverGates ==
    [][/\ (pc = "preflight" /\ ToolStep /\ err' \notin CheckNames)
          => /\ pc' = IF checks' = ClaimedPrefix(Len(ClaimedOrder))
                      THEN "count" ELSE "preflight"
             /\ err' = ""
             /\ UNCHANGED db
       /\ (pc = "count" /\ ToolStep)
          => /\ pc' = "step1"
             /\ err' = ""
             /\ estimate' \in {NoEstimate} \cup 0..MaxRows
             /\ UNCHANGED db]_vars

\* C18 witness: the run is past preflight although the count query failed
\* on a table that has rows to backfill.
C18_Witness ==
    /\ pc = "step1"
    /\ estimate = NoEstimate
    /\ checks = ClaimedPrefix(Len(ClaimedOrder))
    /\ \E i \in 1..Len(rows) : rows[i].column # NULL

-----------------------------------------------------------------------------
(* C19 *)

\* A backfill batch of a live run with a positive batch size executed in the
\* step and found a pending row.
BatchStepOnPending ==
    /\ pc = "step3" /\ Live
    /\ plan.batchSize >= 1
    /\ Len(batchRows') = Len(batchRows) + 1
    /\ Pending # {}

PendingAfter == Cardinality({i \in 1..Len(rows') : IsPending(rows'[i])})

\* While the trigger is installed no external write raises the number of
\* pending rows, and no step at all does from install-sync to teardown.
PendingNeverGrows ==
    /\ (TriggerInstalled /\ writes' = writes + 1)
          => PendingAfter <= pendingBackfillCount
    /\ (TriggerInstalled /\ pc \in {"step3", "step4"})
          => PendingAfter <= pendingBackfillCount

\* C19 as stated: the number of pending rows never grows while the trigger
\* is installed, and every live batch with a positive batch size that finds
\* a pending row strictly lowers it.
C19_PendingDecreases ==
    [][/\ PendingNeverGrows
       /\ BatchStepOnPending => PendingAfter < pendingBackfillCount]_vars

\* C19, amended: the number of pending rows never grows while the trigger
\* is installed, and every live batch with a positive batch size strictly
\* lowers it when it finds a pending row that, under the keyed strategy,
\* has a non-NULL value in the ordering column.
C19_PendingDecreasesOnKeyedRows ==
    [][/\ PendingNeverGrows
       /\ (/\ BatchStepOnPending
           /\ plan.pkColumn # "" => \E i \in Pending : rows[i].pk # NULL)
          => PendingAfter < pendingBackfillCount]_vars

\* C19 witness: the trigger installed, a keyed batch has taken the one
\* pending row and a client has written, and no row is pending.
C19_Witness ==
    /\ pc = "step3" /\ Live
    /\ TriggerInstalled
    /\ plan.pkColumn # ""
    /\ batchRows = <<1>>
    /\ writes = 1
    /\ \E i \in 1..Len(rows) : rows[i].column \in WriteVals
    /\ pendingBackfillCount = 0

-----------------------------------------------------------------------------
(* C20 *)

\* C20: the source column is untouched until the swap: as long as the run
\* has not executed the swap (halted runs included) the source column is in
\* the catalog with the type it had, no step of the tool changes a row's
\* source value or the number of rows, and the swap is executed only by a
\* run that has gone through step 1 (add or skip), executed install-sync, a
\* batch that affected no row and teardown-sync, in that order, the swap
\* being the last statement.
C20_SourceUntouchedUntilSwap ==
    /\ [](~Occurs(executed, "swap")
            => /\ plan.column \in DOMAIN cols0
                  => /\ plan.column \in DOMAIN columns
                     /\ columns[plan.column] = cols0[plan.column]
               /\ dropped = <<>>
               /\ pc # "done" \/ plan.dryRun)
    /\ [][(writes' = writes /\ ~Occurs(executed', "swap"))
            => /\ Len(rows') = Len(rows)
               /\ \A i \in 1..Len(rows) :
                     /\ rows'[i].column = rows[i].column
                     /\ rows'[i].pk = rows[i].pk]_vars
    /\ [](Occurs(executed, "swap")
            => /\ Live /\ pc = "done"
               /\ Last(executed) = "swap"
               /\ \E n \in 1..Len(executed) :
                     /\ executed[n] = "sync"
                     /\ n = 1 \/ (n = 2 /\ executed[1] = "add")
                     /\ \A k \in (n + 1)..(Len(executed) - 2) : executed[k] = "batch"
                     /\ Len(executed) >= n + 3
                     /\ executed[Len(executed) - 1] = "teardown"
               /\ batchRows # <<>> /\ Last(batchRows) = 0
               /\ Len(batchRows) = Len(SelectSeq(executed, LAMBDA x : x = "batch")))

\* C20 witness: a run halted on its teardown after filling a shadow; the
\* source column and its values are as a client last wrote them.
C20_Witness ==
    /\ pc = "fatal" /\ err = "teardown"
    /\ columns[plan.column] = "integer"
    /\ writes = 1
    /\ \E i \in 1..Len(rows) :
          rows[i].column \in WriteVals /\ rows[i].tempColumn \in WriteVals
    /\ \E i \in 1..Len(rows) :
          rows[i].column \in InitVals /\ rows[i].tempColumn \in InitVals

====
